---- MODULE Spec2Model ----
(***************************************************************************)
(* A model of viswsl/modules/textual_stream.py: TransformerTextualStream,  *)
(* its constructor (taken statement by statement), its weight              *)
(* initialization policy init_weights and its forward pass.                *)
(*                                                                         *)
(* Tensors are sequences of sequences: t[i][j][k] is the element at index  *)
(* (i-1, j-1, k-1) of the Python tensor.  Parameter values are abstracted  *)
(* to the class of value they hold: "default" (whatever the module's own   *)
(* constructor left there), "normal" (a sample of N(0, 0.02)) and "zero".  *)
(* dropout and activation are passed through to the collaborators          *)
(* unchanged and play no part in the behaviour modelled here.              *)
(***************************************************************************)
EXTENDS Integers, Sequences, FiniteSets, TLC

\* Bounds of the explored inputs.
MaxVocab == 2
MaxHidden == 2
MaxHeads == 2
MaxFeedforward == 1
MaxLayers == 2
MaxPad == 1
MaxBatch == 2
MaxLen == 3
MaxTokens == 4
MaxInit == 2

VARIABLES
    args,          \* the arguments __init__ was called with
    pc,            \* position in __init__, then "constructed" (or "failed"),
                   \* and "forward" while a forward call is running
    raised,        \* the exception that ended __init__, "none" otherwise
    attrs,         \* the plain attributes of self (lines 28-33)
    modules,       \* the nn.Module objects registered under self
    encoder_layer, \* class of the local _encoder_layer, "" before line 44
    encoder,       \* class of self.encoder, "" before line 57
    initCount,     \* number of times self.apply(self.init_weights) has run
    firstModules,  \* history: modules right after the first application
    call           \* the running forward call: its argument, what it handed
                   \* to the encoder, and what it is about to return

vars == <<args, pc, raised, attrs, modules, encoder_layer, encoder,
          initCount, firstModules, call>>

----------------------------------------------------------------------------
\* Constructor arguments.

\* norm_type is a free string; "pre" and "post" are the two tags the
\* constructor's comment names, "sandwich" stands for any other string.
NormTags == {"pre", "post", "sandwich"}

\* The directionality a configuration asks for; "sideways" stands for any
\* unrecognized tag.
Directionalities == {"bidirectional", "forward", "backward", "sideways"}

\* The constructor's only directional parameter is the boolean
\* is_bidirectional (line 24).  A bidirectional configuration passes True, a
\* forward one False; for any other directionality the parameter cannot
\* express the request and the caller passes either value.
is_bidirectional_for(directionality) ==
    IF directionality = "bidirectional" THEN {TRUE}
    ELSE IF directionality = "forward" THEN {FALSE}
    ELSE BOOLEAN

\* The padding index is a token id of the vocabulary.
Arguments ==
    { a \in [vocab_size : 1..MaxVocab,
             hidden_size : 1..MaxHidden,
             feedforward_size : 1..MaxFeedforward,
             attention_heads : 1..MaxHeads,
             num_layers : 0..MaxLayers,
             norm_type : NormTags,
             directionality : Directionalities,
             is_bidirectional : BOOLEAN,
             padding_idx : 0..MaxPad] :
        /\ a.is_bidirectional \in is_bidirectional_for(a.directionality)
        /\ a.padding_idx < a.vocab_size }

\* The arguments explored together with forward: forward reads neither
\* norm_type nor feedforward_size, and of the directionality only the
\* boolean is_bidirectional.
ForwardArguments ==
    { a \in Arguments : /\ a.norm_type = "pre"
                        /\ a.feedforward_size = 1
                        /\ a.directionality \in {"bidirectional", "forward"} }

\* self before line 28 has none of the attributes.
NoAttrs ==
    [vocab_size |-> {}, hidden_size |-> {}, feedforward_size |-> {},
     attention_heads |-> {}, num_layers |-> {}, padding_idx |-> {}]

NoCall == [caption_tokens |-> <<>>, src |-> <<>>,
           src_key_padding_mask |-> <<>>, textual_features |-> <<>>]

\* property textual_feature_size
textual_feature_size == attrs.hidden_size

----------------------------------------------------------------------------
\* Parameters and modules (the nn.Module tree).

\* A parameter tensor: its shape and, per index of its first dimension, the
\* class of the values held there.
Param(shape, cls) == [shape |-> shape, data |-> [i \in 1..shape[1] |-> cls]]

NoChildren == [n \in {} |-> {}]

\* A module: params maps its own parameter names to parameter tensors,
\* children maps child names to modules; padding_idx is {} for None and {i}
\* for index i (only nn.Embedding has one).
Module(kind, padding_idx, params, children) ==
    [kind |-> kind, padding_idx |-> padding_idx, params |-> params,
     children |-> children]

\* A module without parameters (nn.Dropout).
nnDropout == Module("Dropout", {}, NoChildren, NoChildren)

\* nn.Embedding(num_embeddings, embedding_dim, padding_idx)
nnEmbedding(num_embeddings, embedding_dim, padding_idx) ==
    Module("Embedding", padding_idx,
           [p \in {"weight"} |-> Param(<<num_embeddings, embedding_dim>>, "default")],
           NoChildren)

\* nn.Linear(in_features, out_features)
nnLinear(in_features, out_features) ==
    Module("Linear", {},
           [p \in {"weight", "bias"} |->
               IF p = "weight" THEN Param(<<out_features, in_features>>, "default")
               ELSE Param(<<out_features>>, "default")],
           NoChildren)

\* nn.LayerNorm(normalized_shape)
nnLayerNorm(normalized_shape) ==
    Module("LayerNorm", {},
           [p \in {"weight", "bias"} |-> Param(<<normalized_shape>>, "default")],
           NoChildren)

\* nn.MultiheadAttention(embed_dim, num_heads): in_proj_weight and
\* in_proj_bias are its own parameters, out_proj is a child nn.Linear.
nnMultiheadAttention(embed_dim) ==
    Module("MultiheadAttention", {},
           [p \in {"in_proj_weight", "in_proj_bias"} |->
               IF p = "in_proj_weight" THEN Param(<<3 * embed_dim, embed_dim>>, "default")
               ELSE Param(<<3 * embed_dim>>, "default")],
           [c \in {"out_proj"} |-> nnLinear(embed_dim, embed_dim)])

\* WordAndPositionalEmbedding(vocab_size, hidden_size, dropout=dropout), as
\* called on lines 35-37: no padding index is passed, so the token table is
\* built with the provider's default padding index 0.  The position table
\* has one row per position of the longest caption and no padding index.
WordAndPositionalEmbedding(vocab_size, hidden_size) ==
    Module("WordAndPositionalEmbedding", {}, NoChildren,
           [c \in {"words", "positions", "layer_norm", "dropout"} |->
               CASE c = "words" -> nnEmbedding(vocab_size, hidden_size, {0})
                 [] c = "positions" -> nnEmbedding(MaxLen, hidden_size, {})
                 [] c = "layer_norm" -> nnLayerNorm(hidden_size)
                 [] OTHER -> nnDropout])

\* One encoder block, nn.TransformerEncoderLayer or its pre-norm subclass:
\* both own one attention module, two linear projections and two norms.
EncoderLayer(kind, d_model, dim_feedforward) ==
    Module(kind, {}, NoChildren,
           [c \in {"self_attn", "linear1", "linear2", "norm1", "norm2", "dropout"} |->
               CASE c = "self_attn" -> nnMultiheadAttention(d_model)
                 [] c = "linear1" -> nnLinear(d_model, dim_feedforward)
                 [] c = "linear2" -> nnLinear(dim_feedforward, d_model)
                 [] c = "dropout" -> nnDropout
                 [] OTHER -> nnLayerNorm(d_model)])

\* The encoder stack: num_layers independent copies of the block.
Encoder(kind, layer, num_layers) ==
    Module(kind, {}, NoChildren,
           [l \in {ToString(i) : i \in 0..(num_layers - 1)} |-> layer])

----------------------------------------------------------------------------
\* The weight initialization policy.

\* tensor.data.normal_(mean=0.0, std=0.02): every value is redrawn.
normal_(param) == [param EXCEPT !.data = [i \in DOMAIN @ |-> "normal"]]

\* tensor.data[index].zero_(): row index (counted from 0) becomes zero.
zero_row(param, index) ==
    [param EXCEPT !.data = [i \in DOMAIN @ |-> IF i = index + 1 THEN "zero" ELSE @[i]]]

\* init_weights with the two statements of the embedding branch in the other
\* order: the padding row is zeroed and then redrawn with the rest.
init_weights_zero_then_draw(module) ==
    IF module.kind = "Linear" THEN
        [module EXCEPT !.params["weight"] = normal_(@)]
    ELSE IF module.kind = "MultiheadAttention" THEN
        [module EXCEPT !.params["in_proj_weight"] = normal_(@),
                       !.children["out_proj"].params["weight"] = normal_(@)]
    ELSE IF module.kind = "Embedding" THEN
        [module EXCEPT !.params["weight"] = normal_(@)]
    ELSE module

\* init_weights(module), lines 64-76: one isinstance branch per module kind;
\* a module of any other kind is left alone.
init_weights(module) ==
    IF module.kind = "Linear" THEN
        [module EXCEPT !.params["weight"] = normal_(@)]
    ELSE IF module.kind = "MultiheadAttention" THEN
        [module EXCEPT !.params["in_proj_weight"] = normal_(@),
                       !.children["out_proj"].params["weight"] = normal_(@)]
    ELSE IF module.kind = "Embedding" THEN
        LET drawn == [module EXCEPT !.params["weight"] = normal_(@)]
        IN  IF module.padding_idx # {}
            THEN [drawn EXCEPT !.params["weight"] =
                     zero_row(@, CHOOSE i \in module.padding_idx : TRUE)]
            ELSE drawn
    ELSE module

\* nn.Module.apply(fn) with fn = init_weights: the children first, then the
\* module itself.
RECURSIVE apply(_)
apply(module) ==
    init_weights([module EXCEPT !.children = [c \in DOMAIN @ |-> apply(@[c])]])

\* self.apply(self.init_weights), line 58: self is of none of the three
\* kinds, so only its registered children change.
self_apply(ms) == [c \in DOMAIN ms |-> apply(ms[c])]

\* Every module of a tree, the root included.
RECURSIVE Descendants(_)
Descendants(module) ==
    {module} \cup UNION {Descendants(module.children[c]) : c \in DOMAIN module.children}

\* Every module registered under self.
AllModules(ms) == UNION {Descendants(ms[c]) : c \in DOMAIN ms}

----------------------------------------------------------------------------
\* The constructor, lines 14-58.

\* Lines 39-43: the post-norm layer only for the tag "post", the pre-norm
\* layer for every other value of norm_type.
EncoderLayerClass(norm_type) ==
    IF norm_type = "post" THEN "TransformerEncoderLayer"
    ELSE "PreNormTransformerEncoderLayer"

\* The encoder choice with the condition lost: always the bidirectional one.
EncoderClass_always_bidirectional(is_bidirectional) ==
    "BidirectionalTansformerEncoder"

\* Lines 52-56: two of the three imported encoders are ever chosen.
EncoderClass(is_bidirectional) ==
    IF is_bidirectional THEN "BidirectionalTansformerEncoder"
    ELSE "ForwardTransformerEncoder"

InitWith(arguments) ==
    /\ args \in arguments
    /\ pc = "init"
    /\ raised = "none"
    /\ attrs = NoAttrs
    /\ modules = NoChildren
    /\ encoder_layer = ""
    /\ encoder = ""
    /\ initCount = 0
    /\ firstModules = NoChildren
    /\ call = NoCall

\* Lines 27-33: the plain attributes.
SetAttributes ==
    /\ pc = "init"
    /\ attrs' = [vocab_size |-> args.vocab_size,
                 hidden_size |-> args.hidden_size,
                 feedforward_size |-> args.feedforward_size,
                 attention_heads |-> args.attention_heads,
                 num_layers |-> args.num_layers,
                 padding_idx |-> args.padding_idx]
    /\ pc' = "embedding"
    /\ UNCHANGED <<args, raised, modules, encoder_layer, encoder, initCount,
                   firstModules, call>>

\* Lines 35-37: self.embedding.
BuildEmbedding ==
    /\ pc = "embedding"
    /\ modules' = [c \in {"embedding"} |->
                      WordAndPositionalEmbedding(attrs.vocab_size, textual_feature_size)]
    /\ pc' = "encoder_layer"
    /\ UNCHANGED <<args, raised, attrs, encoder_layer, encoder, initCount,
                   firstModules, call>>

\* Lines 38-50: _encoder_layer.  Both layer classes build an
\* nn.MultiheadAttention(d_model, nhead), whose constructor asserts that
\* embed_dim is divisible by num_heads; the constructor here has no check of
\* its own, so that assertion is what ends it.
BuildEncoderLayer ==
    /\ pc = "encoder_layer"
    /\ attrs.hidden_size % attrs.attention_heads = 0
    /\ encoder_layer' = EncoderLayerClass(args.norm_type)
    /\ pc' = "encoder"
    /\ UNCHANGED <<args, raised, attrs, modules, encoder, initCount,
                   firstModules, call>>

BuildEncoderLayerFails ==
    /\ pc = "encoder_layer"
    /\ attrs.hidden_size % attrs.attention_heads # 0
    /\ raised' = "AssertionError"
    /\ pc' = "failed"
    /\ UNCHANGED <<args, attrs, modules, encoder_layer, encoder, initCount,
                   firstModules, call>>

\* Lines 51-57: self.encoder.  The encoder classes are the directional
\* assembler, which requires a depth of at least 1.
BuildEncoder ==
    /\ pc = "encoder"
    /\ attrs.num_layers >= 1
    /\ encoder' = EncoderClass(args.is_bidirectional)
    /\ modules' = [c \in {"embedding", "encoder"} |->
                      IF c = "embedding" THEN modules[c]
                      ELSE Encoder(encoder',
                                   EncoderLayer(encoder_layer, textual_feature_size,
                                                attrs.feedforward_size),
                                   attrs.num_layers)]
    /\ pc' = "apply"
    /\ UNCHANGED <<args, raised, attrs, encoder_layer, initCount, firstModules, call>>

BuildEncoderFails ==
    /\ pc = "encoder"
    /\ attrs.num_layers < 1
    /\ raised' = "ConfigurationError"
    /\ pc' = "failed"
    /\ UNCHANGED <<args, attrs, modules, encoder_layer, encoder, initCount,
                   firstModules, call>>

\* Line 58: the policy is applied and the constructor returns.
ApplyInitWeights ==
    /\ pc = "apply"
    /\ modules' = self_apply(modules)
    /\ firstModules' = modules'
    /\ initCount' = 1
    /\ pc' = "constructed"
    /\ UNCHANGED <<args, raised, attrs, encoder_layer, encoder, call>>

\* model.apply(model.init_weights) called again on the constructed object.
Reinitialize ==
    /\ pc = "constructed"
    /\ initCount < MaxInit
    /\ modules' = self_apply(modules)
    /\ initCount' = initCount + 1
    /\ UNCHANGED <<args, pc, raised, attrs, encoder_layer, encoder, firstModules, call>>

----------------------------------------------------------------------------
\* The forward pass, lines 78-100.

\* The token batches forward is called with: rectangular, ids below the
\* vocabulary size.
TokenBatches ==
    UNION { [1..shape[1] -> [1..shape[2] -> 0..(attrs.vocab_size - 1)]] :
              shape \in { s \in (1..MaxBatch) \X (1..MaxLen) : s[1] * s[2] <= MaxTokens } }

\* tensor.transpose(0, 1): element (i, j) of the result is element (j, i).
transpose01(tensor) ==
    [j \in 1..Len(tensor[1]) |-> [i \in 1..Len(tensor) |-> tensor[i][j]]]

\* The shape of a tensor of rank 3 and of a tensor of rank 2.
Shape3(tensor) == <<Len(tensor), Len(tensor[1]), Len(tensor[1][1])>>
Shape2(tensor) == <<Len(tensor), Len(tensor[1])>>

\* self.embedding(caption_tokens): batch-major, one vector of hidden_size
\* components per token, determined by the token and its position.
embedding(caption_tokens) ==
    [b \in 1..Len(caption_tokens) |->
        [p \in 1..Len(caption_tokens[b]) |->
            [k \in 1..textual_feature_size |-> <<"embedding", caption_tokens[b][p], p>>]]]

\* The attention-ignore relation of an encoder class: may row not look at
\* col, in batch element b, under the batch-major padding mask?
Ignore(encoder_class, src_key_padding_mask, b, row, col) ==
    \/ src_key_padding_mask[b][col]
    \/ encoder_class = "ForwardTransformerEncoder" /\ col > row
    \/ encoder_class = "BackwardTransformerEncoder" /\ col < row

\* One block on a sequence-major tensor: the feature at (row, b) is
\* determined by the input at (row, b) and by the inputs of batch element b
\* at the positions row does not ignore; the shape is kept.
Block(encoder_class, src, src_key_padding_mask) ==
    [row \in 1..Len(src) |->
        [b \in 1..Len(src[row]) |->
            [k \in 1..Len(src[row][b]) |->
                <<src[row][b][k],
                  {<<col, src[col][b][k]>> :
                     col \in {c \in 1..Len(src) :
                                ~Ignore(encoder_class, src_key_padding_mask, b, row, c)}}>>]]]

\* The stack: num_layers blocks chained, all with the same mask.
RECURSIVE EncoderForward(_, _, _, _)
EncoderForward(encoder_class, num_layers, src, src_key_padding_mask) ==
    IF num_layers = 0 THEN src
    ELSE EncoderForward(encoder_class, num_layers - 1,
                        Block(encoder_class, src, src_key_padding_mask),
                        src_key_padding_mask)

\* Line 82 with the default padding index 0 written in place of
\* self.padding_idx.
caption_mask_default(caption_tokens) ==
    [b \in 1..Len(caption_tokens) |->
        [p \in 1..Len(caption_tokens[b]) |-> caption_tokens[b][p] = 0]]

\* Line 82.
caption_mask(caption_tokens) ==
    [b \in 1..Len(caption_tokens) |->
        [p \in 1..Len(caption_tokens[b]) |-> caption_tokens[b][p] = attrs.padding_idx]]

\* Lines 85-91: the embeddings, made sequence-major.
token_embeddings(caption_tokens) == transpose01(embedding(caption_tokens))

\* Lines 94-96: the encoder gets the sequence-major embeddings and the mask
\* as line 82 made it.
self_encoder(caption_tokens) ==
    EncoderForward(encoder, attrs.num_layers, token_embeddings(caption_tokens),
                   caption_mask(caption_tokens))

\* forward without line 98: the encoder's sequence-major result is returned.
forward_without_undo(caption_tokens) == self_encoder(caption_tokens)

\* Lines 98-100: the transpose is undone and the result returned.
forward(caption_tokens) == transpose01(self_encoder(caption_tokens))

\* A forward call runs to its return statement; the caller is synchronous,
\* so no other call starts before it has returned.
Forward ==
    /\ pc = "constructed"
    /\ \E caption_tokens \in TokenBatches :
          call' = [caption_tokens |-> caption_tokens,
                   src |-> token_embeddings(caption_tokens),
                   src_key_padding_mask |-> caption_mask(caption_tokens),
                   textual_features |-> forward(caption_tokens)]
    /\ pc' = "forward"
    /\ UNCHANGED <<args, raised, attrs, modules, encoder_layer, encoder,
                   initCount, firstModules>>

\* Line 100: the result goes to the caller and the locals are gone.
ForwardReturn ==
    /\ pc = "forward"
    /\ call' = NoCall
    /\ pc' = "constructed"
    /\ UNCHANGED <<args, raised, attrs, modules, encoder_layer, encoder,
                   initCount, firstModules>>

----------------------------------------------------------------------------
\* Specifications.

\* Construction and the initialization policy, over all arguments.
Init == InitWith(Arguments)

Next ==
    \/ SetAttributes
    \/ BuildEmbedding
    \/ BuildEncoderLayer
    \/ BuildEncoderLayerFails
    \/ BuildEncoder
    \/ BuildEncoderFails
    \/ ApplyInitWeights
    \/ Reinitialize

Spec == Init /\ [][Next]_vars

\* Construction followed by forward calls.  forward reads no parameter
\* class and init_weights touches nothing forward reads, so the two are
\* explored apart.
InitForward == InitWith(ForwardArguments)

NextForward ==
    \/ SetAttributes
    \/ BuildEmbedding
    \/ BuildEncoderLayer
    \/ BuildEncoderLayerFails
    \/ BuildEncoder
    \/ BuildEncoderFails
    \/ ApplyInitWeights
    \/ Forward
    \/ ForwardReturn

SpecForward == InitForward /\ [][NextForward]_vars

Constructed == pc \in {"constructed", "forward"}

TypeOK ==
    /\ pc \in {"init", "embedding", "encoder_layer", "encoder", "apply",
               "constructed", "forward", "failed"}
    /\ raised \in {"none", "AssertionError", "ConfigurationError"}
    /\ initCount \in 0..MaxInit
    /\ (pc = "forward") = (call # NoCall)

----------------------------------------------------------------------------
\* Claims about forward, checked under SpecForward.

\* C1: the mask forward hands to the encoder has the shape (batch, length)
\* of the token batch and is true at (b, p) exactly when token (b, p) is the
\* configured padding index; it stays batch-major while the embeddings
\* handed over with it are sequence-major.
C1_MaskIsPaddingBatchMajor ==
    pc = "forward" =>
        LET tokens == call.caption_tokens
            mask == call.src_key_padding_mask
        IN  /\ Len(mask) = Len(tokens)
            /\ \A b \in 1..Len(tokens) :
                  /\ Len(mask[b]) = Len(tokens[b])
                  /\ \A p \in 1..Len(tokens[b]) :
                        mask[b][p] = (tokens[b][p] = args.padding_idx)
            /\ Shape3(call.src) = <<Len(tokens[1]), Len(tokens), args.hidden_size>>

\* C1's case: a batch whose two dimensions differ, holding a padding token
\* and a token that is not, under a padding index other than the default.
C1_Witness ==
    /\ pc = "forward"
    /\ args.padding_idx # 0
    /\ Len(call.caption_tokens) # Len(call.caption_tokens[1])
    /\ \E p \in 1..Len(call.caption_tokens[1]) :
          call.caption_tokens[1][p] = args.padding_idx
    /\ \E p \in 1..Len(call.caption_tokens[1]) :
          call.caption_tokens[1][p] # args.padding_idx

\* C2: forward returns a tensor of shape (batch, length, hidden width) whose
\* element (b, p) is what the encoder stack computed for batch element b at
\* position p from the sequence-major embeddings it was handed.
C2_OutputShapeAndLayout ==
    pc = "forward" =>
        LET tokens == call.caption_tokens
            stack == EncoderForward(encoder, args.num_layers, call.src,
                                    call.src_key_padding_mask)
        IN  /\ Shape3(call.textual_features) =
                   <<Len(tokens), Len(tokens[1]), args.hidden_size>>
            /\ Shape3(stack) = Shape3(call.src)
            /\ \A b \in 1..Len(tokens) : \A p \in 1..Len(tokens[b]) :
                  /\ call.src[p][b] = embedding(tokens)[b][p]
                  /\ call.textual_features[b][p] = stack[p][b]

\* C2's case: a batch whose two dimensions differ went through two blocks.
C2_Witness ==
    /\ pc = "forward"
    /\ args.num_layers = 2
    /\ args.hidden_size = 2
    /\ Len(call.caption_tokens) = 2
    /\ Len(call.caption_tokens[1]) = 1

\* C8: in forward mode, replacing the token at a position j, by any token,
\* the padding index included, leaves the output at every position i < j of
\* that batch element as it was; the ignore relation used is the padding
\* mask or (column > row).
C8_ForwardCausality ==
    (pc = "forward" /\ args.directionality = "forward") =>
        LET tokens == call.caption_tokens
            mask == call.src_key_padding_mask
        IN  \A b \in 1..Len(tokens) : \A j \in 1..Len(tokens[b]) :
              /\ \A row \in 1..Len(tokens[b]) :
                    Ignore(encoder, mask, b, row, j) = (mask[b][j] \/ j > row)
              /\ \A v \in 0..(args.vocab_size - 1) : \A i \in 1..(j - 1) :
                    forward([tokens EXCEPT ![b][j] = v])[b][i]
                        = call.textual_features[b][i]

\* C8's case: a forward-mode stack of two blocks ran on a caption of two
\* tokens, the later one a padding token that another token can replace.
C8_Witness ==
    /\ pc = "forward"
    /\ args.directionality = "forward"
    /\ args.num_layers = 2
    /\ args.vocab_size = 2
    /\ Len(call.caption_tokens[1]) = 2
    /\ call.caption_tokens[1][1] # args.padding_idx
    /\ call.caption_tokens[1][2] = args.padding_idx

----------------------------------------------------------------------------
\* Claims about construction and the policy, checked under Spec.

KnownDirectionalities == {"bidirectional", "forward", "backward"}

\* The encoder variant of a directionality.
VariantOf(directionality) ==
    CASE directionality = "bidirectional" -> "BidirectionalTansformerEncoder"
      [] directionality = "forward" -> "ForwardTransformerEncoder"
      [] directionality = "backward" -> "BackwardTransformerEncoder"
      [] OTHER -> ""

\* C3: a constructed controller's encoder is the variant of the configured
\* directionality, for each of bidirectional, forward and backward.
C3_EncoderMatchesDirectionality ==
    (Constructed /\ args.directionality \in KnownDirectionalities) =>
        encoder = VariantOf(args.directionality)

\* C4: when the hidden width is not divisible by the head count, the
\* constructor ends with a ConfigurationError and never with a controller.
C4_IndivisibleWidthIsConfigurationError ==
    (args.hidden_size % args.attention_heads # 0 /\ pc \in {"constructed", "failed"}) =>
        (pc = "failed" /\ raised = "ConfigurationError")

\* C5: with depth 0 the constructor fails with a ConfigurationError before
\* the embedding provider, the block prototype or the encoder stack is built
\* and before the policy is applied.
C5_DepthZeroFailsFirst ==
    args.num_layers = 0 =>
        /\ modules = NoChildren
        /\ encoder_layer = ""
        /\ encoder = ""
        /\ initCount = 0
        /\ pc \in {"constructed", "failed"} =>
              (pc = "failed" /\ raised = "ConfigurationError")

\* C6: an unrecognized normalization tag or directionality tag never selects
\* a layer class or an encoder class, and never yields a controller.
C6_UnrecognizedTagRejected ==
    /\ args.norm_type \notin {"pre", "post"} => (encoder_layer = "" /\ ~Constructed)
    /\ args.directionality \notin KnownDirectionalities => (encoder = "" /\ ~Constructed)

\* The token table of the embedding provider.
words == modules["embedding"].children["words"]

\* C7: the embedding provider is built with the configured padding index,
\* and once construction is over the token-embedding row at the configured
\* padding index is zero.
C7_PaddingRowOfConfiguredIndexIsZero ==
    "embedding" \in DOMAIN modules =>
        /\ words.padding_idx = {args.padding_idx}
        /\ Constructed => words.params["weight"].data[args.padding_idx + 1] = "zero"

AllOf(param, cls) == \A i \in DOMAIN param.data : param.data[i] = cls

\* C9: once the policy has been applied, every linear projection has normal
\* weights and a zero bias, and every attention module has normal input and
\* output projection weights.
C9_LinearAndAttentionInitialized ==
    initCount >= 1 =>
        \A m \in AllModules(modules) :
            /\ m.kind = "Linear" =>
                  (AllOf(m.params["weight"], "normal") /\ AllOf(m.params["bias"], "zero"))
            /\ m.kind = "MultiheadAttention" =>
                  /\ AllOf(m.params["in_proj_weight"], "normal")
                  /\ AllOf(m.children["out_proj"].params["weight"], "normal")

\* What the policy leaves in a parameter, by the kind of its module and its
\* name alone.
PolicyClass(kind, name) ==
    IF \/ kind = "Linear" /\ name = "weight"
       \/ kind = "MultiheadAttention" /\ name = "in_proj_weight"
       \/ kind = "Embedding" /\ name = "weight"
    THEN "normal" ELSE "default"

====
